---- MODULE Spec2Model ----
(***************************************************************************)
(* AIMCR review tool: the review document edited through the Streamlit     *)
(* form (streamlit_app.py), the on-screen risk summary of the Final Review *)
(* page (streamlit_app.py + helper_functions.py) and the risk summary of   *)
(* the PDF report (json_to_pdf.py).                                        *)
(*                                                                         *)
(* Python list indices are kept 0-based as in the source; the TLA+         *)
(* sequence position of Python index idx is idx + 1.                       *)
(***************************************************************************)
EXTENDS Integers, Sequences, FiniteSets, TLC

(***************************************************************************)
(* Bounds of the exploration.                                              *)
(***************************************************************************)
\* largest number of artifacts a document holds, all four sections together
MaxArtifacts == 2
\* largest number of artifacts of a section of a loaded JSON record
MaxLoadedArtifacts == 2

(***************************************************************************)
(* Configuration data.                                                     *)
(***************************************************************************)
\* the four artifact collections of st.session_state.data, in the order the
\* summary loops visit them
SectionKeys == <<"third_party_software", "source_code", "datasets_user_files", "models">>

SectionKeySet == {SectionKeys[i] : i \in 1..Len(SectionKeys)}

RISK_LEVELS ==
  (1 :> "No Risk") @@ (2 :> "Low Risk") @@ (3 :> "Medium Risk") @@
  (4 :> "High Risk") @@ (5 :> "Critical Risk")

SECTION_CHECKS ==
  [third_party_software |->
     << "Project & Usage Alignment",
        "Prohibited Use Screening (LC 2.7)",
        "Restricted Entities Screening (LC 2.5)",
        "Source / Provenance",
        "License / Permissions",
        "Bundled Tools / Dependencies" >>,
   source_code |->
     << "Project & Usage Alignment",
        "Prohibited Use Screening (LC 2.7)",
        "Source / Provenance Provenance & Restricted Entities D5+M Affiliation Screeing (LC 2.5)",
        "License / Permissions",
        "Dependencies / Bundled Components",
        "Sample Inspection" >>,
   datasets_user_files |->
     << "Project & Usage Alignment",
        "Prohibited Use Screening (LC 2.7)",
        "Restricted Entities Screening (LC 2.5)",
        "Prompts / Fine-tuning Scripts",
        "Sample Inspection",
        "Provenance",
        "License / Permissions" >>,
   models |->
     << "Project & Usage Alignment",
        "Prohibited Use Screening (LC 2.7)",
        "Source / Provenance Provenance & Restricted Entities D5+M Affiliation Screeing (LC 2.5)",
        "License / Permissions",
        "Training Data Documentation",
        "Customisation / Fine-tuning",
        "FLOPS Calculation",
        "Sample Inspection" >>]

\* options of the score selectbox of the artifact form
ScoreOptions == {1, 2, 3, 4, 5}

\* section titles of the Final Review page, with the collection each shows
sections_summary ==
  << [name |-> "Third-Party Software", key |-> "third_party_software"],
     [name |-> "Source Code", key |-> "source_code"],
     [name |-> "Datasets & User Files", key |-> "datasets_user_files"],
     [name |-> "Models", key |-> "models"] >>

\* section titles of the PDF report, with the collection each shows
sections ==
  << [name |-> "Third-Party Software", key |-> "third_party_software"],
     [name |-> "Source Code", key |-> "source_code"],
     [name |-> "Datasets / User Files", key |-> "datasets_user_files"],
     [name |-> "AI Models", key |-> "models"] >>

(***************************************************************************)
(* Python helpers.                                                         *)
(***************************************************************************)
\* d.get(key, default)
Get(d, key, default) == IF key \in DOMAIN d THEN d[key] ELSE default

\* max(...) of a non-empty collection of integers
MaxOf(S) == CHOOSE x \in S : \A y \in S : y <= x

\* max(a, b)
Max2(a, b) == IF a >= b THEN a ELSE b

RECURSIVE SumSeq(_)
\* sum(list)
SumSeq(s) == IF s = <<>> THEN 0 ELSE Head(s) + SumSeq(Tail(s))

RECURSIVE lstrip(_)
lstrip(s) == IF s = "" THEN "" ELSE IF Head(s) = " " THEN lstrip(Tail(s)) ELSE s

RECURSIVE rstrip(_)
rstrip(s) ==
  IF s = "" THEN ""
  ELSE IF SubSeq(s, Len(s), Len(s)) = " " THEN rstrip(SubSeq(s, 1, Len(s) - 1)) ELSE s

\* str.strip()
strip(s) == rstrip(lstrip(s))

\* isinstance(value, (int, float)): a number prints with a leading digit or
\* sign, a string with a quote
IsNumber(value) ==
  SubSeq(ToString(value), 1, 1) \in {"0", "1", "2", "3", "4", "5", "6", "7", "8", "9", "-"}

\* isinstance(score, (int, float)) of the value check.get("score"): None
\* (the key is missing) is not a number
HasNumericScore(check) == "score" \in DOMAIN check /\ IsNumber(check.score)

\* isinstance(checks, dict): the checks are an object keyed by question
\* name, not a list; the keys of an object are texts, the positions of a
\* list numbers (an empty object and an empty list behave alike)
isinstance_dict(checks) ==
  /\ DOMAIN checks # {}
  /\ ~IsNumber(CHOOSE key \in DOMAIN checks : TRUE)

\* len(checks) of a list or an object
len(checks) ==
  IF isinstance_dict(checks) THEN Cardinality(DOMAIN checks) ELSE Len(checks)

(***************************************************************************)
(* helper_functions.py: position-based section score of the form pages.    *)
(***************************************************************************)
\* the exception that evaluating artifact['checks'][i]['score'] raises, or
\* "none"; i is the Python index
ScoreLookupError(artifact, i) ==
  IF "checks" \notin DOMAIN artifact THEN "KeyError"
  \* checks[i] on an object keyed by question name: no key i
  ELSE IF isinstance_dict(artifact.checks) THEN "KeyError"
  ELSE IF i >= Len(artifact.checks) THEN "IndexError"
  ELSE IF "score" \notin DOMAIN artifact.checks[i + 1] THEN "KeyError"
  ELSE "none"

\* the exception that max(...) raises when it takes the score of artifact a
\* at Python index i, or "none": a string and a number do not compare
ScoreCompareError(artifacts, i, a) ==
  IF /\ a > 1
     /\ ScoreLookupError(artifacts[1], i) = "none"
     /\ IsNumber(artifacts[a].checks[i + 1].score)
          # IsNumber(artifacts[1].checks[i + 1].score)
  THEN "TypeError"
  ELSE "none"

\* the exception met at check index i, artifact a
CellError(artifacts, i, a) ==
  IF ScoreLookupError(artifacts[a], i) # "none"
  THEN ScoreLookupError(artifacts[a], i)
  ELSE ScoreCompareError(artifacts, i, a)

\* the first exception the loops of calculate_section_risk meet, visiting the
\* check positions in order and, for each, the artifacts in order
FirstLookupError(artifacts, num_checks) ==
  LET cells == {<<i, a>> \in (0..(num_checks - 1)) \X (1..Len(artifacts)) :
                   CellError(artifacts, i, a) # "none"}
      first == CHOOSE c \in cells :
                 \A d \in cells : c[1] < d[1] \/ (c[1] = d[1] /\ c[2] <= d[2])
  IN IF cells = {} THEN "none" ELSE CellError(artifacts, first[1], first[2])

calculate_section_risk(artifacts) ==
  IF artifacts = <<>>
  THEN [raised |-> "none", total_score |-> 0, max_scores |-> <<>>]
  ELSE IF "checks" \notin DOMAIN artifacts[1]
  THEN [raised |-> "KeyError"]
  ELSE
    LET num_checks == len(artifacts[1].checks)
        err == FirstLookupError(artifacts, num_checks)
        max_scores ==
          [p \in 1..num_checks |->
             MaxOf({artifacts[a].checks[p].score : a \in 1..Len(artifacts)})]
    IN IF err # "none"
       THEN [raised |-> err]
       \* sum(max_scores) cannot add a string
       ELSE IF \E p \in 1..num_checks : ~IsNumber(artifacts[1].checks[p].score)
       THEN [raised |-> "TypeError"]
       ELSE [raised |-> "none", total_score |-> SumSeq(max_scores), max_scores |-> max_scores]

(***************************************************************************)
(* json_to_pdf.py: name-keyed section score of the PDF report.             *)
(***************************************************************************)
risk_map ==
  (1 :> "No Risk") @@ (2 :> "Low Risk") @@ (3 :> "Medium Risk") @@
  (4 :> "High Risk") @@ (5 :> "Critical Risk")

\* variant: the lookup keyed from 0 instead of 1
get_risk_category_zero_based(score) ==
  IF score + 1 \in DOMAIN risk_map THEN risk_map[score + 1] ELSE "Unknown"

get_risk_category(score) == IF score \in DOMAIN risk_map THEN risk_map[score] ELSE "Unknown"

\* variant: the loop over an artifact's checks stops after the first check
HighestOfChecks_first_only(checks, max_score) ==
  IF checks = <<>> THEN max_score
  ELSE IF HasNumericScore(Head(checks)) THEN Max2(max_score, Head(checks).score)
  ELSE max_score

RECURSIVE HighestOfChecks(_, _)
\* inner loop of get_highest_score_in_section over one artifact's check list
HighestOfChecks(checks, max_score) ==
  IF checks = <<>> THEN max_score
  ELSE HighestOfChecks(Tail(checks),
         IF HasNumericScore(Head(checks)) THEN Max2(max_score, Head(checks).score)
         ELSE max_score)

\* inner loop of get_highest_score_in_section over checks.values()
HighestOfValues(checks, max_score) ==
  MaxOf({max_score}
          \cup {checks[key].score : key \in {n \in DOMAIN checks : HasNumericScore(checks[n])}})

\* one artifact of get_highest_score_in_section: the branch for its checks
HighestOfItem(item, max_score) ==
  LET checks == Get(item, "checks", <<>>)
  IN IF isinstance_dict(checks) THEN HighestOfValues(checks, max_score)
     ELSE HighestOfChecks(checks, max_score)

RECURSIVE HighestOfItems_adding(_, _)
\* variant: the artifacts' highest scores are added up
HighestOfItems_adding(items, max_score) ==
  IF items = <<>> THEN max_score
  ELSE HighestOfItems_adding(Tail(items),
         max_score + HighestOfChecks(Get(Head(items), "checks", <<>>), 0))

RECURSIVE HighestOfItems(_, _)
HighestOfItems(items, max_score) ==
  IF items = <<>> THEN max_score
  ELSE HighestOfItems(Tail(items), HighestOfItem(Head(items), max_score))

\* variant: a model marked proprietary counts as a critical score
get_highest_score_in_section_proprietary(items) ==
  IF items = <<>> THEN 0
  ELSE IF \E a \in 1..Len(items) : Get(items[a], "is_proprietary", FALSE)
  THEN 5
  ELSE HighestOfItems(items, 0)

get_highest_score_in_section(items) ==
  IF items = <<>> THEN 0 ELSE HighestOfItems(items, 0)

\* check_max_scores[check_name] = score, or the larger of the entry and score
RecordCheckMax(check_max_scores, check_name, score) ==
  [n \in DOMAIN check_max_scores \cup {check_name} |->
     IF n = check_name
     THEN IF check_name \in DOMAIN check_max_scores
          THEN Max2(check_max_scores[check_name], score)
          ELSE score
     ELSE check_max_scores[n]]

RECURSIVE MaxScoresOfChecks(_, _)
\* inner loop of calculate_section_total_score over one artifact's check list
MaxScoresOfChecks(checks, check_max_scores) ==
  IF checks = <<>> THEN check_max_scores
  ELSE MaxScoresOfChecks(Tail(checks),
         IF HasNumericScore(Head(checks))
         THEN RecordCheckMax(check_max_scores, Get(Head(checks), "name", ""), Head(checks).score)
         ELSE check_max_scores)

\* variant: the name is read from the entry, not from its key
MaxScoresOfValues_unkeyed(checks, check_max_scores) ==
  IF DOMAIN checks = {} THEN check_max_scores
  ELSE RecordCheckMax(check_max_scores, "",
                      MaxOf({checks[n].score : n \in DOMAIN checks}))

RECURSIVE MaxScoresOfValues(_, _)
\* inner loop of calculate_section_total_score over checks.items()
MaxScoresOfValues(checks, check_max_scores) ==
  IF DOMAIN checks = {} THEN check_max_scores
  ELSE LET check_name == CHOOSE n \in DOMAIN checks : TRUE
           rest == [n \in DOMAIN checks \ {check_name} |-> checks[n]]
       IN MaxScoresOfValues(rest,
            IF HasNumericScore(checks[check_name])
            THEN RecordCheckMax(check_max_scores, check_name, checks[check_name].score)
            ELSE check_max_scores)

\* one artifact of calculate_section_total_score: the branch for its checks
MaxScoresOfItem(item, check_max_scores) ==
  LET checks == Get(item, "checks", <<>>)
  IN IF isinstance_dict(checks) THEN MaxScoresOfValues(checks, check_max_scores)
     ELSE MaxScoresOfChecks(checks, check_max_scores)

RECURSIVE MaxScoresOfItems(_, _)
MaxScoresOfItems(items, check_max_scores) ==
  IF items = <<>> THEN check_max_scores
  ELSE MaxScoresOfItems(Tail(items), MaxScoresOfItem(Head(items), check_max_scores))

RECURSIVE SumValues(_)
\* sum(check_max_scores.values())
SumValues(d) ==
  IF DOMAIN d = {} THEN 0
  ELSE LET n == CHOOSE m \in DOMAIN d : TRUE
       IN d[n] + SumValues([m \in DOMAIN d \ {n} |-> d[m]])

RECURSIVE SumOfChecks(_)
SumOfChecks(checks) ==
  IF checks = <<>> THEN 0
  ELSE (IF HasNumericScore(Head(checks)) THEN Head(checks).score ELSE 0)
       + SumOfChecks(Tail(checks))

RECURSIVE calculate_section_total_score_every_check(_)
\* variant: the sum of every artifact's every check
calculate_section_total_score_every_check(items) ==
  IF items = <<>> THEN 0
  ELSE SumOfChecks(Get(Head(items), "checks", <<>>))
       + calculate_section_total_score_every_check(Tail(items))

calculate_section_total_score(items) ==
  IF items = <<>> THEN 0
  ELSE SumValues(MaxScoresOfItems(items, [n \in {} |-> 0]))

\* variant: an artifact contributes when it holds a critical score
item_has_high_score_critical(item, highest_score) ==
  LET checks == Get(item, "checks", <<>>)
  IN \E c \in 1..Len(checks) : HasNumericScore(checks[c]) /\ checks[c].score = 5

\* item_has_high_score of calculate_section_totals
item_has_high_score(item, highest_score) ==
  LET checks == Get(item, "checks", <<>>)
  IN IF isinstance_dict(checks)
     THEN \E key \in DOMAIN checks :
            HasNumericScore(checks[key]) /\ checks[key].score = highest_score
     ELSE \E c \in 1..Len(checks) :
            HasNumericScore(checks[c]) /\ checks[c].score = highest_score

\* item.get("name", "Unnamed").strip() or "Unnamed"
artifact_name(item) ==
  LET stripped == strip(Get(item, "name", "Unnamed"))
  IN IF stripped = "" THEN "Unnamed" ELSE stripped

RECURSIVE high_score_artifacts(_, _)
high_score_artifacts(items, highest_score) ==
  IF items = <<>> THEN <<>>
  ELSE (IF item_has_high_score(Head(items), highest_score)
        THEN <<artifact_name(Head(items))>> ELSE <<>>)
       \o high_score_artifacts(Tail(items), highest_score)

\* variant: the threshold excluded
section_pass_fail_above(total_score) == IF total_score > 21 THEN "FAIL" ELSE "PASS"

\* the threshold comparison of calculate_section_totals
section_pass_fail(total_score) == IF total_score >= 21 THEN "FAIL" ELSE "PASS"

\* variant: the branch for a section without items is missing
section_entry_unguarded(items) ==
  [total |-> calculate_section_total_score(items),
   highest |-> get_highest_score_in_section(items),
   category |-> get_risk_category(get_highest_score_in_section(items)),
   count |-> Len(items),
   pass_fail |-> IF calculate_section_total_score(items) >= 21 THEN "FAIL" ELSE "PASS",
   artifacts |-> high_score_artifacts(items, get_highest_score_in_section(items))]

\* one entry of section_info
section_entry(items) ==
  IF items # <<>>
  THEN LET total_score == calculate_section_total_score(items)
           highest_score == get_highest_score_in_section(items)
       IN [total |-> total_score,
           highest |-> highest_score,
           category |-> get_risk_category(highest_score),
           count |-> Len(items),
           pass_fail |-> section_pass_fail(total_score),
           artifacts |-> high_score_artifacts(items, highest_score)]
  ELSE [total |-> 0, highest |-> 0, category |-> "No Data", count |-> 0,
        pass_fail |-> "N/A", artifacts |-> <<>>]

\* section_info, keyed by the display name of the section
calculate_section_totals(d) ==
  [name \in {sections[i].name : i \in 1..Len(sections)} |->
     LET key == (CHOOSE i \in 1..Len(sections) : sections[i].name = name)
     IN section_entry(Get(d, sections[key].key, <<>>))]

\* variant: the project fails when the cumulative score is critical
create_cumulative_risk_box_fail_by_score(section_info) ==
  LET cumulative_score ==
        IF DOMAIN section_info = {} THEN 0
        ELSE MaxOf({section_info[n].highest : n \in DOMAIN section_info})
  IN [cumulative_score |-> cumulative_score,
      cumulative_category |-> get_risk_category(cumulative_score),
      cumulative_pass_fail |-> IF cumulative_score >= 5 THEN "FAIL" ELSE "PASS",
      shown |-> cumulative_score > 0]

\* variant: the category is looked up for the last section's highest score
create_cumulative_risk_box_last_section(section_info) ==
  LET cumulative_score ==
        IF DOMAIN section_info = {} THEN 0
        ELSE MaxOf({section_info[n].highest : n \in DOMAIN section_info})
      any_section_failed ==
        \E n \in DOMAIN section_info : section_info[n].pass_fail = "FAIL"
  IN [cumulative_score |-> cumulative_score,
      cumulative_category |->
        get_risk_category(section_info[sections[Len(sections)].name].highest),
      cumulative_pass_fail |-> IF any_section_failed THEN "FAIL" ELSE "PASS",
      shown |-> cumulative_score > 0]

\* the figures create_cumulative_risk_box prints
create_cumulative_risk_box(section_info) ==
  LET cumulative_score ==
        IF DOMAIN section_info = {} THEN 0
        ELSE MaxOf({section_info[n].highest : n \in DOMAIN section_info})
      any_section_failed ==
        \E n \in DOMAIN section_info :
           section_info[n].pass_fail # "N/A" /\ section_info[n].pass_fail = "FAIL"
  IN [cumulative_score |-> cumulative_score,
      cumulative_category |-> get_risk_category(cumulative_score),
      cumulative_pass_fail |-> IF any_section_failed THEN "FAIL" ELSE "PASS",
      shown |-> cumulative_score > 0]


(***************************************************************************)
(* streamlit_app.py: the risk summary of the Final Review page.            *)
(***************************************************************************)
\* highest_score = max(max_scores) if max_scores else 1
summary_highest_score(max_scores) ==
  IF max_scores # <<>> THEN MaxOf({max_scores[p] : p \in 1..Len(max_scores)}) ELSE 1

\* pass_fail = "FAIL" if total_risk >= 21 else "PASS"
summary_pass_fail(total_risk) == IF total_risk >= 21 THEN "FAIL" ELSE "PASS"

\* the entry the summary loop appends for a section that has artifacts
section_scores_entry(section_name, artifacts, checks) ==
  LET risk == calculate_section_risk(artifacts)
      highest_score == summary_highest_score(risk.max_scores)
  IN [name |-> section_name,
      total_score |-> risk.total_score,
      highest_score |-> highest_score,
      risk_category |-> Get(RISK_LEVELS, highest_score, "Unknown"),
      artifacts |-> Len(artifacts),
      max_scores |-> risk.max_scores,
      checks |-> checks,
      pass_fail |-> summary_pass_fail(risk.total_score)]

RECURSIVE section_scores_list(_, _)
\* the summary loop over sections_summary, from position i on
section_scores_list(d, i) ==
  IF i > Len(sections_summary) THEN <<>>
  ELSE LET artifacts == d[sections_summary[i].key]
       IN (IF artifacts # <<>>
           THEN <<section_scores_entry(sections_summary[i].name, artifacts,
                                       SECTION_CHECKS[sections_summary[i].key])>>
           ELSE <<>>)
          \o section_scores_list(d, i + 1)

\* cumulative_risk_score
cumulative_risk_score(scores_list) ==
  IF scores_list # <<>>
  THEN MaxOf({scores_list[i].highest_score : i \in 1..Len(scores_list)})
  ELSE 1

\* the exception the summary loop raises, or "none": the one of the first
\* section, in loop order, whose calculate_section_risk raises
summary_raised(d) ==
  LET bad == {i \in 1..Len(sections_summary) :
                calculate_section_risk(d[sections_summary[i].key]).raised # "none"}
      first == CHOOSE i \in bad : \A j \in bad : i <= j
  IN IF bad = {} THEN "none"
     ELSE calculate_section_risk(d[sections_summary[first].key]).raised

\* everything the Final Review page computes from the document
final_review(d) ==
  IF summary_raised(d) # "none"
  THEN [raised |-> summary_raised(d)]
  ELSE LET scores_list == section_scores_list(d, 1)
           score == cumulative_risk_score(scores_list)
           any_section_failed ==
             \E i \in 1..Len(scores_list) : scores_list[i].pass_fail = "FAIL"
       IN [raised |-> "none",
           section_scores_list |-> scores_list,
           overall_critical |->
             \E i \in 1..Len(scores_list) : scores_list[i].highest_score = 5,
           cumulative_risk_score |-> score,
           cumulative_risk_category |-> Get(RISK_LEVELS, score, "No Risk"),
           cumulative_pass_fail |-> IF any_section_failed THEN "FAIL" ELSE "PASS"]

\* what json_to_pdf puts in the risk summary of the report
json_to_pdf(d) ==
  LET section_info == calculate_section_totals(d)
  IN [section_info |-> section_info,
      cumulative |-> create_cumulative_risk_box(section_info)]

(***************************************************************************)
(* State.                                                                  *)
(***************************************************************************)
VARIABLES
  data,        \* st.session_state.data, the review document
  edit_index,  \* st.session_state.edit_index: section key -> Python index
  summary,     \* the risk summary on screen, NoSummary off the Final Review page
  report,      \* the risk summary of the PDF generated from the document
  editing_submission,          \* st.session_state.editing_submission
  original_submission_folder,  \* st.session_state.original_submission_folder
  loaded_from,      \* history: the submission folder the document in the
                    \* form was loaded from through Edit Submission, or None
  drafts,           \* the files of drafts/, most recently written first
  submissions,      \* the folders of submissions/, most recently written first
  checkpoints,      \* the files of checkpoints/, most recently written first
  written,          \* the files the last handler wrote, in the order written
  clock,            \* datetime.now()
  drafts_page,      \* st.session_state.drafts_page
  submissions_page  \* st.session_state.submissions_page

\* the workspace and what the session keeps about it
workspace_vars ==
  <<editing_submission, original_submission_folder, loaded_from, drafts,
    submissions, checkpoints, written, clock, drafts_page, submissions_page>>

vars ==
  <<data, edit_index, summary, report, editing_submission,
    original_submission_folder, loaded_from, drafts, submissions, checkpoints,
    written, clock, drafts_page, submissions_page>>

\* Python's None
None == "None"

NoSummary == [shown |-> FALSE]

NoReport == [generated |-> FALSE]

\* st.session_state.data as first initialised
EmptyDocument ==
  [metadata |-> [proposal_title |-> "", principal_investigator |-> "",
                 proposal_date |-> "", reviewer_name |-> "", reviewer_id |-> "",
                 aimcr_date |-> "", project_id |-> ""],
   third_party_software |-> <<>>,
   source_code |-> <<>>,
   datasets_user_files |-> <<>>,
   models |-> <<>>,
   observations |-> "",
   recommendation |-> ""]

\* the session as first initialised, in a workspace without files
WorkspaceInit ==
  /\ editing_submission = FALSE
  /\ original_submission_folder = None
  /\ loaded_from = None
  /\ drafts = <<>>
  /\ submissions = <<>>
  /\ checkpoints = <<>>
  /\ written = <<>>
  /\ clock = 0
  /\ drafts_page = 0
  /\ submissions_page = 0

Init ==
  /\ data = EmptyDocument
  /\ edit_index = [k \in {} |-> 0]
  /\ summary = NoSummary
  /\ report = NoReport
  /\ WorkspaceInit


(***************************************************************************)
(* What the user enters in the artifact form.                              *)
(***************************************************************************)
\* the artifact name typed when the names are not varied
ArtifactNames == {"pkgA"}

\* the artifact names typed when the names are varied: left blank,
\* whitespace only, plain, padded
VariedNames == {"", " ", "A", " A "}

\* notes typed in the notes fields
NoteTexts == {""}

\* every check of the form at score b
Uniform(n, b) == [i \in 1..n |-> b]

\* every check of the form at the default score 1, except check p at the
\* top score
Spike(n, p) == [i \in 1..n |-> IF i = p THEN 5 ELSE 1]

\* the score selections explored for a form of n checks: one score for all
\* checks, or a single top score at the first, an inner or the last check
ScoreProfiles(n) ==
  {Uniform(n, b) : b \in ScoreOptions} \cup {Spike(n, p) : p \in {1, 3, n}}

\* the score selections explored when the names are varied
NamedScoreProfiles(n) == {Uniform(n, 3), Spike(n, n)}

\* the score selections explored in the form pages: the defaults, a failing
\* section, a single top score
FormScoreProfiles(n) == {Uniform(n, 1), Uniform(n, 4), Spike(n, n)}

\* number of artifacts of the document
TotalArtifacts(d) ==
  SumSeq([i \in 1..Len(SectionKeys) |-> Len(d[SectionKeys[i]])])

(***************************************************************************)
(* render_artifact_form: the handlers of a section page.                   *)
(***************************************************************************)
\* variant: the lookup never fails
edit_lookup_raised_never(section_key) == "none"

\* the exception the lookup artifacts[edit_index[section_key]] raises when
\* the page of the section is run in edit mode, or "none"
edit_lookup_raised(section_key) ==
  IF /\ section_key \in DOMAIN edit_index
     /\ edit_index[section_key] >= Len(data[section_key])
  THEN "IndexError"
  ELSE "none"

\* the form below the artifact list is reached
FormRendered(section_key) == edit_lookup_raised(section_key) = "none"

\* list.pop(idx)
Pop(list, idx) ==
  [p \in 1..(Len(list) - 1) |-> IF p <= idx THEN list[p] ELSE list[p + 1]]

\* del d[key]
DelKey(d, key) == [k \in DOMAIN d \ {key} |-> d[k]]

\* variant: every check is stored under the name of the first question
checks_data_first_name(checks, scores, notes) ==
  [i \in 1..Len(checks) |-> [name |-> checks[1], score |-> scores[i], notes |-> notes]]

\* checks_data built by the form loop over the section's checks
checks_data(checks, scores, notes) ==
  [i \in 1..Len(checks) |-> [name |-> checks[i], score |-> scores[i], notes |-> notes]]

\* new_artifact of the Save Artifact handler
new_artifact(section_key, name, scores, notes, is_proprietary) ==
  LET base == [name |-> name,
               checks |-> checks_data(SECTION_CHECKS[section_key], scores, notes)]
  IN IF section_key = "models"
     THEN base @@ [is_proprietary |-> is_proprietary]
     ELSE base

\* the Edit button of artifact idx; the exploration follows one edit at a
\* time: no other section is left in edit mode
EditArtifact(section_key, idx) ==
  /\ idx \in 0..(Len(data[section_key]) - 1)
  /\ DOMAIN edit_index \subseteq {section_key}
  /\ edit_index' = [k \in DOMAIN edit_index \cup {section_key} |->
                      IF k = section_key THEN idx ELSE edit_index[k]]
  /\ summary' = NoSummary
  /\ UNCHANGED <<data, report>>
  /\ UNCHANGED workspace_vars

\* the Delete button of artifact idx
DeleteArtifact(section_key, idx) ==
  /\ idx \in 0..(Len(data[section_key]) - 1)
  /\ data' = [data EXCEPT ![section_key] = Pop(data[section_key], idx)]
  /\ summary' = NoSummary
  /\ report' = NoReport
  /\ UNCHANGED edit_index
  /\ UNCHANGED workspace_vars

\* variant: the edit branch is missing, the artifact is always appended
SaveArtifact_always_appending(section_key, name, scores, notes, is_proprietary) ==
  /\ FormRendered(section_key)
  /\ TotalArtifacts(data) < MaxArtifacts
  /\ data' = [data EXCEPT ![section_key] =
                Append(data[section_key],
                       new_artifact(section_key, name, scores, notes, is_proprietary))]
  /\ edit_index' = DelKey(edit_index, section_key)
  /\ summary' = NoSummary
  /\ report' = NoReport
  /\ UNCHANGED workspace_vars

\* the Save Artifact button of the add/edit form
SaveArtifact(section_key, name, scores, notes, is_proprietary) ==
  /\ FormRendered(section_key)
  /\ LET artifact == new_artifact(section_key, name, scores, notes, is_proprietary)
     IN IF section_key \in DOMAIN edit_index
        THEN /\ data' = [data EXCEPT
                           ![section_key][edit_index[section_key] + 1] = artifact]
             /\ edit_index' = DelKey(edit_index, section_key)
        ELSE /\ TotalArtifacts(data) < MaxArtifacts
             /\ data' = [data EXCEPT ![section_key] = Append(data[section_key], artifact)]
             /\ UNCHANGED edit_index
  /\ summary' = NoSummary
  /\ report' = NoReport
  /\ UNCHANGED workspace_vars

\* the Cancel Edit button of the edit form
CancelEdit(section_key) ==
  /\ section_key \in DOMAIN edit_index
  /\ FormRendered(section_key)
  /\ edit_index' = DelKey(edit_index, section_key)
  /\ summary' = NoSummary
  /\ UNCHANGED <<data, report>>
  /\ UNCHANGED workspace_vars

\* variant: the page stores the cumulative category it computed in the
\* document
FinalReview_storing_category ==
  /\ summary' = [shown |-> TRUE] @@ final_review(data)
  /\ data' = [data EXCEPT !["recommendation"] =
                IF final_review(data).raised = "none"
                THEN final_review(data).cumulative_risk_category
                ELSE @]
  /\ UNCHANGED <<edit_index, report>>
  /\ UNCHANGED workspace_vars

\* a run of the Final Review page; the Observations and Recommendation text
\* areas write back the text they were given
FinalReview ==
  /\ summary' = [shown |-> TRUE] @@ final_review(data)
  /\ UNCHANGED <<data, edit_index, report>>
  /\ UNCHANGED workspace_vars

\* json_to_pdf.py run on the exported document
GeneratePdf ==
  /\ report' = [generated |-> TRUE] @@ json_to_pdf(data)
  /\ UNCHANGED <<data, edit_index, summary>>
  /\ UNCHANGED workspace_vars

Next ==
  \/ \E k \in SectionKeySet, idx \in 0..(MaxArtifacts - 1) : EditArtifact(k, idx)
  \/ \E k \in SectionKeySet, idx \in 0..(MaxArtifacts - 1) : DeleteArtifact(k, idx)
  \/ \E k \in SectionKeySet, name \in ArtifactNames, notes \in NoteTexts,
        is_proprietary \in BOOLEAN :
       \E scores \in FormScoreProfiles(Len(SECTION_CHECKS[k])) :
         /\ (k # "models" => is_proprietary = FALSE)
         /\ SaveArtifact(k, name, scores, notes, is_proprietary)
  \/ \E k \in SectionKeySet : CancelEdit(k)
  \/ FinalReview
  \/ GeneratePdf

Spec == Init /\ [][Next]_vars


(***************************************************************************)
(* The aggregation as a function of the document: the documents the form   *)
(* builds (sequences of the records the Save Artifact handler appends),    *)
(* summarised by the Final Review page and by the PDF report.              *)
(***************************************************************************)
\* the artifacts Save Artifact builds for a section from the given inputs
FormArtifacts(section_key, names, profiles, flags) ==
  {new_artifact(section_key, name, scores, notes, is_proprietary) :
     name \in names, scores \in profiles, notes \in NoteTexts, is_proprietary \in flags}

\* how many artifacts each section holds, at most limit in all
SectionSizes(limit) ==
  {sz \in [SectionKeySet -> 0..limit] :
     sz["third_party_software"] + sz["source_code"]
       + sz["datasets_user_files"] + sz["models"] <= limit}

\* the document is one whose sections hold artifacts of the given sets, as
\* many as one of the given size distributions says
DocumentOver(artifacts_of, sizes) ==
  \E sz \in sizes :
    \E a \in [1..sz["third_party_software"] -> artifacts_of["third_party_software"]],
       b \in [1..sz["source_code"] -> artifacts_of["source_code"]],
       c \in [1..sz["datasets_user_files"] -> artifacts_of["datasets_user_files"]],
       d \in [1..sz["models"] -> artifacts_of["models"]] :
      data = [EmptyDocument EXCEPT !["third_party_software"] = a,
                                   !["source_code"] = b,
                                   !["datasets_user_files"] = c,
                                   !["models"] = d]

\* the artifacts of each section when the document is built through the
\* form under one artifact name
FormArtifactsOf ==
  [k \in SectionKeySet |->
     FormArtifacts(k, ArtifactNames, ScoreProfiles(Len(SECTION_CHECKS[k])), {FALSE})]

\* the artifacts of each section when the names are varied
NamedFormArtifactsOf ==
  [k \in SectionKeySet |->
     FormArtifacts(k, VariedNames, NamedScoreProfiles(Len(SECTION_CHECKS[k])), {FALSE})]

SummaryInit ==
  /\ DocumentOver(FormArtifactsOf, SectionSizes(MaxArtifacts))
  /\ edit_index = [k \in {} |-> 0]
  /\ summary = NoSummary
  /\ report = NoReport
  /\ WorkspaceInit

NamesInit ==
  /\ DocumentOver(NamedFormArtifactsOf, SectionSizes(MaxArtifacts))
  /\ edit_index = [k \in {} |-> 0]
  /\ summary = NoSummary
  /\ report = NoReport
  /\ WorkspaceInit

SummaryNext ==
  \/ FinalReview
  \/ GeneratePdf

SpecSummary == SummaryInit /\ [][SummaryNext]_vars

SpecNames == NamesInit /\ [][SummaryNext]_vars

\* the artifacts of each section when the proprietary checkbox is varied
FlaggedFormArtifactsOf ==
  [k \in SectionKeySet |->
     FormArtifacts(k, ArtifactNames, NamedScoreProfiles(Len(SECTION_CHECKS[k])), BOOLEAN)]

FlagsInit ==
  /\ DocumentOver(FlaggedFormArtifactsOf, SectionSizes(MaxArtifacts))
  /\ edit_index = [k \in {} |-> 0]
  /\ summary = NoSummary
  /\ report = NoReport
  /\ WorkspaceInit

SpecFlags == FlagsInit /\ [][SummaryNext]_vars

(***************************************************************************)
(* JSON records loaded from files written by other versions of the form:   *)
(* an artifact may carry a check whose name is not in the section's list.  *)
(***************************************************************************)
\* a question name of no section's list
LegacyCheckName == "Legacy Question"

\* the legacy check is scored lowest or highest
LegacyScores == {1, 5}

\* the listed checks of a loaded artifact are all scored 1 or all scored 4
LoadedBaseScores == {1, 4, 5}

\* an artifact with the section's checks at score b and, by kind, nothing
\* else ("canonical"), one more check under the legacy name ("extra") or the
\* first check stored under the legacy name ("renamed"), scored s
LoadedArtifact(section_key, kind, b, s) ==
  LET canonical == checks_data(SECTION_CHECKS[section_key],
                               Uniform(Len(SECTION_CHECKS[section_key]), b), "")
      legacy == [name |-> LegacyCheckName, score |-> s, notes |-> ""]
  IN [name |-> "pkgA",
      checks |-> CASE kind = "canonical" -> canonical
                   [] kind = "extra" -> Append(canonical, legacy)
                   [] kind = "renamed" -> <<legacy>> \o Tail(canonical)]

LoadedArtifacts(section_key) ==
  {LoadedArtifact(section_key, "canonical", b, 1) : b \in LoadedBaseScores}
    \cup {LoadedArtifact(section_key, kind, b, s) :
            kind \in {"extra", "renamed"}, b \in LoadedBaseScores, s \in LegacyScores}

\* the artifacts of each section of a loaded record
LoadedArtifactsOf == [k \in SectionKeySet |-> LoadedArtifacts(k)]

\* a loaded record has artifacts in one section at most
LoadedSizes ==
  {sz \in [SectionKeySet -> 0..MaxLoadedArtifacts] :
     Cardinality({k \in SectionKeySet : sz[k] > 0}) <= 1}

LoadedInit ==
  /\ DocumentOver(LoadedArtifactsOf, LoadedSizes)
  /\ edit_index = [k \in {} |-> 0]
  /\ summary = NoSummary
  /\ report = NoReport
  /\ WorkspaceInit

SpecLoaded == LoadedInit /\ [][SummaryNext]_vars

(***************************************************************************)
(* JSON records that are not well formed: a check without a score, a check *)
(* whose score is a text, an artifact without a check list or with an      *)
(* empty one.  A draft file is loaded into the document as it is.          *)
(***************************************************************************)
\* a score that is not a number
TextScore == "high"

\* the artifact of a loaded record that choice = <<kind, b, p>> describes:
\* the section's checks at score b, except that check p has no score
\* ("no_score") or the text score ("text_score"), or that the artifact has
\* no check list ("no_checks") or an empty one ("empty_checks")
MalformedArtifact(section_key, choice) ==
  LET kind == choice[1]
      b == choice[2]
      p == choice[3]
      n == Len(SECTION_CHECKS[section_key])
      well == checks_data(SECTION_CHECKS[section_key], Uniform(n, b), "")
  IN CASE kind = "well" -> [name |-> "pkgA", checks |-> well]
       [] kind = "no_score" ->
            [name |-> "pkgA",
             checks |-> [i \in 1..n |->
                           IF i = p THEN [name |-> well[i].name, notes |-> ""]
                           ELSE well[i]]]
       [] kind = "text_score" ->
            [name |-> "pkgA",
             checks |-> [i \in 1..n |->
                           IF i = p
                           THEN [name |-> well[i].name, score |-> TextScore, notes |-> ""]
                           ELSE well[i]]]
       [] kind = "no_checks" -> [name |-> "pkgA"]
       [] kind = "empty_checks" -> [name |-> "pkgA", checks |-> <<>>]

\* the artifacts explored for a section: the defect at the first or at the
\* last check
MalformedChoices(section_key) ==
  {<<"well", b, 1>> : b \in LoadedBaseScores}
    \cup {<<kind, b, p>> : kind \in {"no_score", "text_score"}, b \in LoadedBaseScores,
                           p \in {1, Len(SECTION_CHECKS[section_key])}}
    \cup {<<"no_checks", 1, 1>>, <<"empty_checks", 1, 1>>}

\* the document is one whose sections hold artifacts of the explored
\* choices, as many as one of the given size distributions says
MalformedDocumentOver(sizes) ==
  \E sz \in sizes :
    \E a \in [1..sz["third_party_software"] -> MalformedChoices("third_party_software")],
       b \in [1..sz["source_code"] -> MalformedChoices("source_code")],
       c \in [1..sz["datasets_user_files"] -> MalformedChoices("datasets_user_files")],
       d \in [1..sz["models"] -> MalformedChoices("models")] :
      data = [EmptyDocument EXCEPT
                !["third_party_software"] =
                   [i \in DOMAIN a |-> MalformedArtifact("third_party_software", a[i])],
                !["source_code"] =
                   [i \in DOMAIN b |-> MalformedArtifact("source_code", b[i])],
                !["datasets_user_files"] =
                   [i \in DOMAIN c |-> MalformedArtifact("datasets_user_files", c[i])],
                !["models"] = [i \in DOMAIN d |-> MalformedArtifact("models", d[i])]]

MalformedInit ==
  /\ MalformedDocumentOver(LoadedSizes)
  /\ edit_index = [k \in {} |-> 0]
  /\ summary = NoSummary
  /\ report = NoReport
  /\ WorkspaceInit

SpecMalformed == MalformedInit /\ [][SummaryNext]_vars


(***************************************************************************)
(* Vocabulary of the properties.                                           *)
(***************************************************************************)
\* title of a section in the PDF report
PdfName(section_key) ==
  sections[CHOOSE i \in 1..Len(sections) : sections[i].key = section_key].name

\* title of a section on the Final Review page
AppName(section_key) ==
  sections_summary[CHOOSE i \in 1..Len(sections_summary) :
                     sections_summary[i].key = section_key].name

\* the Section Result of the PDF report for a section
ReportEntry(section_key) == report.section_info[PdfName(section_key)]

\* the Final Review page has an entry for the section
HasSummaryEntry(section_key) ==
  \E i \in 1..Len(summary.section_scores_list) :
     summary.section_scores_list[i].name = AppName(section_key)

\* the Section Result of the Final Review page for a section
SummaryEntry(section_key) ==
  summary.section_scores_list[
    CHOOSE i \in 1..Len(summary.section_scores_list) :
      summary.section_scores_list[i].name = AppName(section_key)]

\* the Final Review page is on screen and was computed without an exception
SummaryShown == summary.shown /\ summary.raised = "none"

\* the scores the artifacts of a section give to the checks named q
ScoresNamed(items, q) ==
  {items[x[1]].checks[x[2]].score :
     x \in {y \in (1..Len(items)) \X (1..8) :
              /\ y[2] <= Len(items[y[1]].checks)
              /\ items[y[1]].checks[y[2]].name = q}}

\* the scores of all checks of all artifacts of a section
AllScores(items) ==
  {items[x[1]].checks[x[2]].score :
     x \in {y \in (1..Len(items)) \X (1..8) : y[2] <= Len(items[y[1]].checks)}}

\* the worst answer to question q, 0 when no artifact answers it
QuestionMax(items, q) ==
  IF ScoresNamed(items, q) = {} THEN 0 ELSE MaxOf(ScoresNamed(items, q))

\* max per question of the section's list first, then the sum
SumOfQuestionMaxima(section_key) ==
  SumSeq([i \in 1..Len(SECTION_CHECKS[section_key]) |->
            QuestionMax(data[section_key], SECTION_CHECKS[section_key][i])])

\* the artifact holds every check of the section at score b
AllChecksAt(artifact, section_key, b) ==
  /\ Len(artifact.checks) = Len(SECTION_CHECKS[section_key])
  /\ \A c \in 1..Len(artifact.checks) : artifact.checks[c].score = b

\* the label of a score in the risk lookup of the specification
RiskLabel(score) ==
  CASE score = 1 -> "No Risk"
    [] score = 2 -> "Low Risk"
    [] score = 3 -> "Medium Risk"
    [] score = 4 -> "High Risk"
    [] score = 5 -> "Critical Risk"

RiskLabels == {RiskLabel(score) : score \in 1..5}

(***************************************************************************)
(* C1: for a non-empty section, total_score is the sum, over the question  *)
(* names of the section's list, of the maximum score the artifacts give    *)
(* the check of that name; both on the Final Review page and in the PDF.   *)
(***************************************************************************)
C1_TotalIsSumOfQuestionMaxima ==
  \A k \in SectionKeySet :
    data[k] # <<>> =>
      /\ report.generated => ReportEntry(k).total = SumOfQuestionMaxima(k)
      /\ summary.shown =>
           /\ summary.raised = "none"
           /\ HasSummaryEntry(k)
           /\ SummaryEntry(k).total_score = SumOfQuestionMaxima(k)

\* artifacts A (all checks 2) and B (all checks 4) give 4 * N, on both outputs
C1_Witness ==
  \E k \in SectionKeySet :
    /\ Len(data[k]) = 2
    /\ AllChecksAt(data[k][1], k, 2)
    /\ AllChecksAt(data[k][2], k, 4)
    /\ report.generated
    /\ SummaryShown
    /\ ReportEntry(k).total = 4 * Len(SECTION_CHECKS[k])
    /\ SummaryEntry(k).total_score = 4 * Len(SECTION_CHECKS[k])

(***************************************************************************)
(* C2: a section without artifacts has the Section Result total 0, highest *)
(* 0, category "No Data", pass_fail "N/A" and no contributing artifacts.   *)
(***************************************************************************)
C2_EmptySectionResult ==
  report.generated =>
    \A k \in SectionKeySet :
      data[k] = <<>> =>
        /\ ReportEntry(k).total = 0
        /\ ReportEntry(k).highest = 0
        /\ ReportEntry(k).category = "No Data"
        /\ ReportEntry(k).pass_fail = "N/A"
        /\ ReportEntry(k).artifacts = <<>>

\* a report of a document with an empty section next to a section with data
C2_Witness ==
  /\ report.generated
  /\ \E k \in SectionKeySet : data[k] = <<>> /\ ReportEntry(k).category = "No Data"
  /\ \E k \in SectionKeySet : data[k] # <<>>

(***************************************************************************)
(* C3: for a non-empty section, pass_fail is FAIL exactly when total_score *)
(* is at least 21 and PASS otherwise, whatever highest_score and the       *)
(* number of artifacts are.                                                *)
(***************************************************************************)
C3_FailIffTotalAtLeast21 ==
  \A k \in SectionKeySet :
    data[k] # <<>> =>
      /\ report.generated =>
           ReportEntry(k).pass_fail =
             IF SumOfQuestionMaxima(k) >= 21 THEN "FAIL" ELSE "PASS"
      /\ SummaryShown =>
           SummaryEntry(k).pass_fail =
             IF SumOfQuestionMaxima(k) >= 21 THEN "FAIL" ELSE "PASS"

\* a section failing with a total of exactly 21, on both outputs
C3_Witness ==
  \E k \in SectionKeySet :
    /\ data[k] # <<>>
    /\ report.generated
    /\ SummaryShown
    /\ ReportEntry(k).total = 21
    /\ ReportEntry(k).pass_fail = "FAIL"
    /\ SummaryEntry(k).total_score = 21
    /\ SummaryEntry(k).pass_fail = "FAIL"

(***************************************************************************)
(* C4: for a non-empty section, highest_score is the largest score of any  *)
(* check of any artifact; one check scored 5 anywhere makes it 5 and the   *)
(* category "Critical Risk".                                               *)
(***************************************************************************)
C4_HighestIsMaxCheckScore ==
  \A k \in SectionKeySet :
    data[k] # <<>> =>
      /\ report.generated =>
           /\ ReportEntry(k).highest = MaxOf(AllScores(data[k]))
           /\ 5 \in AllScores(data[k]) =>
                /\ ReportEntry(k).highest = 5
                /\ ReportEntry(k).category = "Critical Risk"
      /\ SummaryShown =>
           /\ SummaryEntry(k).highest_score = MaxOf(AllScores(data[k]))
           /\ 5 \in AllScores(data[k]) =>
                /\ SummaryEntry(k).highest_score = 5
                /\ SummaryEntry(k).risk_category = "Critical Risk"

\* a single 5, not at the first check and not in the first artifact, among
\* checks scored 1
C4_Witness ==
  \E k \in SectionKeySet :
    /\ Len(data[k]) = 2
    /\ AllChecksAt(data[k][1], k, 1)
    /\ data[k][2].checks[1].score = 1
    /\ data[k][2].checks[3].score = 5
    /\ report.generated
    /\ SummaryShown
    /\ ReportEntry(k).highest = 5
    /\ SummaryEntry(k).risk_category = "Critical Risk"

(***************************************************************************)
(* C5: the project verdict is FAIL exactly when some section's verdict is  *)
(* FAIL, and PASS otherwise, whatever the cumulative score is.             *)
(***************************************************************************)
C5_ProjectFailsIffASectionFails ==
  /\ report.generated =>
       report.cumulative.cumulative_pass_fail =
         IF \E k \in SectionKeySet : ReportEntry(k).pass_fail = "FAIL"
         THEN "FAIL" ELSE "PASS"
  /\ SummaryShown =>
       summary.cumulative_pass_fail =
         IF \E k \in SectionKeySet :
              HasSummaryEntry(k) /\ SummaryEntry(k).pass_fail = "FAIL"
         THEN "FAIL" ELSE "PASS"

\* the one failing section has highest_score 3, a passing section has 5 and
\* the others have no data: the project fails
C5_Witness ==
  /\ report.generated
  /\ SummaryShown
  /\ \E k \in SectionKeySet :
       /\ ReportEntry(k).pass_fail = "FAIL"
       /\ ReportEntry(k).highest = 3
       /\ \A j \in SectionKeySet \ {k} : ReportEntry(j).pass_fail # "FAIL"
       /\ \E j \in SectionKeySet \ {k} :
            ReportEntry(j).pass_fail = "PASS" /\ ReportEntry(j).highest = 5
  /\ \E k \in SectionKeySet : ReportEntry(k).pass_fail = "N/A"
  /\ report.cumulative.cumulative_score = 5
  /\ report.cumulative.cumulative_pass_fail = "FAIL"
  /\ summary.cumulative_pass_fail = "FAIL"


(***************************************************************************)
(* C6: the cumulative score is the maximum of the four sections'           *)
(* highest_score values, a section without artifacts counting as 0, and is *)
(* 0 when no section has data; on the Final Review page and in the PDF.    *)
(***************************************************************************)
SectionHighest(section_key) ==
  IF data[section_key] = <<>> THEN 0 ELSE MaxOf(AllScores(data[section_key]))

C6_CumulativeIsMaxOfSections ==
  LET expected == MaxOf({SectionHighest(k) : k \in SectionKeySet})
  IN /\ report.generated => report.cumulative.cumulative_score = expected
     /\ SummaryShown => summary.cumulative_risk_score = expected

(***************************************************************************)
(* C8: for a non-empty section, risk_category is the label the lookup      *)
(* 1 No Risk, 2 Low Risk, 3 Medium Risk, 4 High Risk, 5 Critical Risk      *)
(* gives highest_score.                                                    *)
(***************************************************************************)
C8_CategoryIsLabelOfHighest ==
  \A k \in SectionKeySet :
    data[k] # <<>> =>
      /\ report.generated =>
           /\ ReportEntry(k).highest \in 1..5
           /\ ReportEntry(k).category = RiskLabel(ReportEntry(k).highest)
      /\ SummaryShown =>
           /\ SummaryEntry(k).highest_score \in 1..5
           /\ SummaryEntry(k).risk_category = RiskLabel(SummaryEntry(k).highest_score)

\* a section whose highest score 3 is labelled Medium Risk on both outputs
C8_Witness ==
  \E k \in SectionKeySet :
    /\ data[k] # <<>>
    /\ report.generated
    /\ SummaryShown
    /\ ReportEntry(k).highest = 3
    /\ ReportEntry(k).category = "Medium Risk"
    /\ SummaryEntry(k).highest_score = 3
    /\ SummaryEntry(k).risk_category = "Medium Risk"

(***************************************************************************)
(* C9: the cumulative category is the label the same lookup gives the      *)
(* cumulative score that was computed; it is never the label of another    *)
(* score.                                                                  *)
(***************************************************************************)
C9_CumulativeCategoryIsLabelOfCumulativeScore ==
  /\ report.generated =>
       IF report.cumulative.cumulative_score \in 1..5
       THEN report.cumulative.cumulative_category
              = RiskLabel(report.cumulative.cumulative_score)
       ELSE report.cumulative.cumulative_category \notin RiskLabels
  /\ SummaryShown =>
       IF summary.cumulative_risk_score \in 1..5
       THEN summary.cumulative_risk_category = RiskLabel(summary.cumulative_risk_score)
       ELSE summary.cumulative_risk_category \notin RiskLabels

\* two sections with highest scores 4 and 2, in either order of the
\* sections: the project is labelled High Risk on both outputs
C9_Witness ==
  /\ report.generated
  /\ SummaryShown
  /\ ReportEntry("third_party_software").highest = 4
  /\ ReportEntry("models").highest = 2
  /\ report.cumulative.cumulative_score = 4
  /\ report.cumulative.cumulative_category = "High Risk"
  /\ summary.cumulative_risk_score = 4
  /\ summary.cumulative_risk_category = "High Risk"


(***************************************************************************)
(* C7, as claimed: for a non-empty section, contributing_artifacts         *)
(* contains an artifact's name if and only if that artifact has a check    *)
(* whose score equals the section's highest_score.                         *)
(***************************************************************************)
\* the artifact has a check at the section's highest score
Contributes(section_key, a) ==
  \E c \in 1..Len(data[section_key][a].checks) :
     data[section_key][a].checks[c].score = SectionHighest(section_key)

\* the elements of a list
Elements(list) == {list[i] : i \in 1..Len(list)}

\* the positions of a name that hold a character other than a space
InkPositions(name) == {i \in 1..Len(name) : SubSeq(name, i, i) # " "}

\* the name under which the report shows an artifact: the name without
\* surrounding whitespace, "Unnamed" when nothing is left
DisplayName(name) ==
  IF InkPositions(name) = {} THEN "Unnamed"
  ELSE SubSeq(name, 0 - MaxOf({0 - i : i \in InkPositions(name)}),
              MaxOf(InkPositions(name)))

\* the name is taken as the report shows it, which is the reading most
\* favourable to the claim
C7_NameListedIffArtifactContributes ==
  report.generated =>
    \A k \in SectionKeySet :
      \A a \in 1..Len(data[k]) :
        DisplayName(data[k][a].name) \in Elements(ReportEntry(k).artifacts)
          <=> Contributes(k, a)

(***************************************************************************)
(* C7, amended: for a non-empty section, contributing_artifacts has, in    *)
(* section order, one entry for each artifact that has a check whose score *)
(* equals the section's highest_score and none for any other artifact; the *)
(* entry is the artifact's name without surrounding whitespace, "Unnamed"  *)
(* when nothing is left.                                                   *)
(***************************************************************************)
RECURSIVE ContributorNames(_, _)
\* the display names of the contributing artifacts from position a on
ContributorNames(section_key, a) ==
  IF a > Len(data[section_key]) THEN <<>>
  ELSE (IF Contributes(section_key, a)
        THEN <<DisplayName(data[section_key][a].name)>> ELSE <<>>)
       \o ContributorNames(section_key, a + 1)

C7_EntriesAreContributingArtifacts ==
  report.generated =>
    \A k \in SectionKeySet :
      data[k] # <<>> => ReportEntry(k).artifacts = ContributorNames(k, 1)

\* two artifacts shown under one name, of which only the second reaches the
\* highest score: the name is listed once
C7_Witness ==
  \E k \in SectionKeySet :
    /\ report.generated
    /\ Len(data[k]) = 2
    /\ data[k][1].name # data[k][2].name
    /\ DisplayName(data[k][1].name) = DisplayName(data[k][2].name)
    /\ ~Contributes(k, 1)
    /\ Contributes(k, 2)
    /\ SectionHighest(k) = 5
    /\ ReportEntry(k).artifacts = <<DisplayName(data[k][2].name)>>

(***************************************************************************)
(* C10: a check whose name is not in the section's question list is        *)
(* ignored by the aggregation: it enters no per-question maximum, the      *)
(* total is the one of the listed questions alone, and no error is raised. *)
(***************************************************************************)
\* some artifact of the section holds a check under a name off the list
HasNonCanonicalCheck(section_key) ==
  \E a \in 1..Len(data[section_key]) :
    \E c \in 1..Len(data[section_key][a].checks) :
       data[section_key][a].checks[c].name \notin Elements(SECTION_CHECKS[section_key])

C10_NonCanonicalCheckIgnored ==
  \A k \in SectionKeySet :
    HasNonCanonicalCheck(k) =>
      /\ report.generated => ReportEntry(k).total = SumOfQuestionMaxima(k)
      /\ summary.shown =>
           /\ summary.raised = "none"
           /\ SummaryEntry(k).total_score = SumOfQuestionMaxima(k)

(***************************************************************************)
(* C11: the aggregation of a section that holds a check without a score, a *)
(* check with a score that is not a number, or an artifact without checks, *)
(* raises nothing and gives the result of the section without that check:  *)
(* the total and the highest score of the checks that carry a number.      *)
(***************************************************************************)
\* the check carries a number as score
IsScored(check) == "score" \in DOMAIN check /\ IsNumber(check.score)

\* the checks of an artifact, none when it has no check list
ChecksOf(artifact) == IF "checks" \in DOMAIN artifact THEN artifact.checks ELSE <<>>

\* the checks of a section that carry a number as score, as <<artifact, check>>
ScoredChecks(items) ==
  {y \in (1..Len(items)) \X (1..8) :
     /\ y[2] <= Len(ChecksOf(items[y[1]]))
     /\ IsScored(ChecksOf(items[y[1]])[y[2]])}

\* the numbers the artifacts of a section give to the checks named q
UsableScoresNamed(items, q) ==
  {items[y[1]].checks[y[2]].score :
     y \in {z \in ScoredChecks(items) : items[z[1]].checks[z[2]].name = q}}

\* the sum of the per-question maxima of the checks that carry a number
UsableTotal(section_key) ==
  SumSeq([i \in 1..Len(SECTION_CHECKS[section_key]) |->
            IF UsableScoresNamed(data[section_key], SECTION_CHECKS[section_key][i]) = {}
            THEN 0
            ELSE MaxOf(UsableScoresNamed(data[section_key],
                                         SECTION_CHECKS[section_key][i]))])

\* the largest number any check of the section carries, 0 when none does
UsableHighest(section_key) ==
  IF ScoredChecks(data[section_key]) = {} THEN 0
  ELSE MaxOf({data[section_key][y[1]].checks[y[2]].score :
                y \in ScoredChecks(data[section_key])})

\* the section holds an artifact without checks or a check without a number
HasMalformedCheck(section_key) ==
  \E a \in 1..Len(data[section_key]) :
    \/ "checks" \notin DOMAIN data[section_key][a]
    \/ \E c \in 1..Len(ChecksOf(data[section_key][a])) :
         ~IsScored(data[section_key][a].checks[c])

C11_MalformedTreatedAsAbsent ==
  \A k \in SectionKeySet :
    HasMalformedCheck(k) =>
      /\ report.generated =>
           /\ ReportEntry(k).total = UsableTotal(k)
           /\ ReportEntry(k).highest = UsableHighest(k)
      /\ summary.shown =>
           /\ summary.raised = "none"
           /\ HasSummaryEntry(k)
           /\ SummaryEntry(k).total_score = UsableTotal(k)
           /\ SummaryEntry(k).highest_score = UsableHighest(k)

(***************************************************************************)
(* C12: the aggregation substitutes no default score for absent data: a    *)
(* section without a scored check is not reported with highest_score 1,    *)
(* and a project without a scored check is not reported with cumulative    *)
(* score 1; on the Final Review page and in the PDF.                       *)
(***************************************************************************)
\* no check of the section carries a number as score
NoScoredCheck(section_key) == ScoredChecks(data[section_key]) = {}

C12_NoDefaultScoreInAggregation ==
  /\ report.generated =>
       /\ \A k \in SectionKeySet :
            NoScoredCheck(k) => ReportEntry(k).highest # 1
       /\ (\A k \in SectionKeySet : NoScoredCheck(k)) =>
            report.cumulative.cumulative_score # 1
  /\ SummaryShown =>
       /\ \A k \in SectionKeySet :
            (NoScoredCheck(k) /\ HasSummaryEntry(k)) => SummaryEntry(k).highest_score # 1
       /\ (\A k \in SectionKeySet : NoScoredCheck(k)) =>
            summary.cumulative_risk_score # 1

(***************************************************************************)
(* C13: every risk category label of a section is one of No Risk, Low      *)
(* Risk, Medium Risk, High Risk, Critical Risk, No Data, whatever the      *)
(* document is, a non-empty section without a usable score included.       *)
(***************************************************************************)
SectionCategoryLabels == RiskLabels \cup {"No Data"}

C13_SectionCategoryIsKnownLabel ==
  /\ report.generated =>
       \A k \in SectionKeySet : ReportEntry(k).category \in SectionCategoryLabels
  /\ SummaryShown =>
       \A i \in 1..Len(summary.section_scores_list) :
          summary.section_scores_list[i].risk_category \in SectionCategoryLabels

(***************************************************************************)
(* C14: section scoring does not depend on the order of the checks inside  *)
(* an artifact: with the checks of any artifact permuted, name and score   *)
(* of each check kept, total_score, highest_score, risk_category and       *)
(* pass_fail of the section are the same.  Stated for the exchange of two  *)
(* checks, of which every permutation is composed.                         *)
(***************************************************************************)
\* the check list with the checks at positions i and j exchanged
Exchanged(checks, i, j) ==
  [p \in 1..Len(checks) |->
     IF p = i THEN checks[j] ELSE IF p = j THEN checks[i] ELSE checks[p]]

\* the document with two checks of artifact a of a section exchanged
WithChecksExchanged(section_key, a, i, j) ==
  [data EXCEPT ![section_key][a].checks = Exchanged(@, i, j)]

\* the four scoring fields of a Section Result of the PDF report
ReportScoring(entry) == <<entry.total, entry.highest, entry.category, entry.pass_fail>>

\* the four scoring fields of a Section Result of the Final Review page
SummaryScoring(entry) ==
  <<entry.total_score, entry.highest_score, entry.risk_category, entry.pass_fail>>

\* the Section Result the Final Review page computes for a section of d
SummaryEntryOf(d, section_key) ==
  LET list == final_review(d).section_scores_list
  IN list[CHOOSE i \in 1..Len(list) : list[i].name = AppName(section_key)]

C14_CheckOrderIrrelevant ==
  \A k \in SectionKeySet :
    \A a \in 1..Len(data[k]) :
      \A i, j \in 1..Len(data[k][a].checks) :
        LET permuted == WithChecksExchanged(k, a, i, j)
        IN /\ report.generated =>
                ReportScoring(json_to_pdf(permuted).section_info[PdfName(k)])
                  = ReportScoring(ReportEntry(k))
           /\ SummaryShown =>
                /\ final_review(permuted).raised = "none"
                /\ SummaryScoring(SummaryEntryOf(permuted, k))
                     = SummaryScoring(SummaryEntry(k))

(***************************************************************************)
(* C15: computing the summary twice without a change of the document in    *)
(* between gives identical results.  final_review and json_to_pdf are      *)
(* operators of the document, so two evaluations on one document agree in  *)
(* every model; no formula is stated.                                      *)
(***************************************************************************)

(***************************************************************************)
(* C16: computing the summary has no side effect: a step that puts a       *)
(* summary on screen or generates a report leaves the document (metadata,  *)
(* the four artifact lists with every check, observations, recommendation) *)
(* and the edit state unchanged.                                           *)
(***************************************************************************)
\* the step computes the risk summary of the Final Review page or of the PDF
SummaryComputed ==
  \/ summary'.shown /\ summary' # summary
  \/ report'.generated /\ report' # report

C16_SummaryLeavesDocumentUnchanged ==
  [][SummaryComputed => (data' = data /\ edit_index' = edit_index)]_vars

\* both summaries computed of a document with artifacts in the models
\* section and in another one
C16_Witness ==
  /\ summary.shown
  /\ report.generated
  /\ data["models"] # <<>>
  /\ \E k \in SectionKeySet \ {"models"} : data[k] # <<>>
  /\ data["observations"] = ""
  /\ data["recommendation"] = ""

(***************************************************************************)
(* C17: is_proprietary never influences scoring: a document that differs   *)
(* from the summarised one only in the is_proprietary values of its models *)
(* has the same section results and the same project result.               *)
(***************************************************************************)
\* the document with the is_proprietary values of its models set to flags
WithFlags(d, flags) ==
  LET models == d["models"]
  IN [d EXCEPT !["models"] =
        [a \in 1..Len(models) |->
           [name |-> models[a].name, checks |-> models[a].checks,
            is_proprietary |-> flags[a]]]]

C17_ProprietaryFlagIrrelevant ==
  \A flags \in [1..Len(data["models"]) -> BOOLEAN] :
    /\ report.generated =>
         ([generated |-> TRUE] @@ json_to_pdf(WithFlags(data, flags))) = report
    /\ summary.shown =>
         ([shown |-> TRUE] @@ final_review(WithFlags(data, flags))) = summary

\* a proprietary and a non-proprietary model, neither with a critical score
C17_Witness ==
  /\ report.generated
  /\ SummaryShown
  /\ Len(data["models"]) = 2
  /\ data["models"][1].is_proprietary
  /\ ~data["models"][2].is_proprietary
  /\ ReportEntry("models").highest = 3
  /\ SummaryEntry("models").highest_score = 3

(***************************************************************************)
(* C18: after any sequence of add, edit and delete operations of the form, *)
(* every artifact of a section holds exactly one check per question of the *)
(* section's list, in the list's order, and every score is an integer in   *)
(* 1..5.                                                                   *)
(***************************************************************************)
C18_FormArtifactsWellFormed ==
  \A k \in SectionKeySet :
    \A a \in 1..Len(data[k]) :
      /\ Len(data[k][a].checks) = Len(SECTION_CHECKS[k])
      /\ \A c \in 1..Len(data[k][a].checks) :
           /\ data[k][a].checks[c].name = SECTION_CHECKS[k][c]
           /\ data[k][a].checks[c].score \in 1..5

\* a section holding two different artifacts, the second one being edited
C18_Witness ==
  \E k \in SectionKeySet :
    /\ Len(data[k]) = 2
    /\ data[k][1] # data[k][2]
    /\ k \in DOMAIN edit_index
    /\ edit_index[k] = 1

(***************************************************************************)
(* C19: for every document reachable through add, edit and delete, each    *)
(* Section Result has total_score >= 0 and highest_score in 0..5, and      *)
(* highest_score is 0 exactly when the section has no artifacts.           *)
(***************************************************************************)
C19_SectionResultRanges ==
  /\ report.generated =>
       \A k \in SectionKeySet :
         /\ ReportEntry(k).total >= 0
         /\ ReportEntry(k).highest \in 0..5
         /\ ReportEntry(k).highest = 0 <=> data[k] = <<>>
  /\ summary.shown =>
       /\ summary.raised = "none"
       /\ \A i \in 1..Len(summary.section_scores_list) :
            /\ summary.section_scores_list[i].total_score >= 0
            /\ summary.section_scores_list[i].highest_score \in 0..5
            /\ summary.section_scores_list[i].highest_score = 0
                 <=> summary.section_scores_list[i].artifacts = 0

\* a section without artifacts next to a section of two artifacts whose
\* highest scores would add up to more than 5
C19_Witness ==
  /\ report.generated
  /\ SummaryShown
  /\ \E k \in SectionKeySet : data[k] = <<>> /\ ReportEntry(k).highest = 0
  /\ \E k \in SectionKeySet :
       /\ Len(data[k]) = 2
       /\ AllChecksAt(data[k][1], k, 4)
       /\ ReportEntry(k).highest = 5
       /\ SummaryEntry(k).highest_score = 5

(***************************************************************************)
(* C20: removing or updating an artifact with an index outside the         *)
(* section's range fails with an index error and leaves the document as it *)
(* was.  The document changes only by an append, by a removal at an index  *)
(* in range or by a replacement at an edit index in range; while the edit  *)
(* index of a section is out of range the update fails with IndexError and *)
(* no artifact of the section is replaced or added.                        *)
(***************************************************************************)
\* the edit index of the section points outside its artifact list
EditIndexOutOfRange(section_key) ==
  /\ section_key \in DOMAIN edit_index
  /\ edit_index[section_key] \notin 0..(Len(data[section_key]) - 1)

\* the step removes the artifact at an index in range
RemovesInRange(section_key) ==
  \E idx \in 0..(Len(data[section_key]) - 1) :
    /\ Len(data'[section_key]) = Len(data[section_key]) - 1
    /\ \A p \in 1..Len(data'[section_key]) :
         data'[section_key][p] = data[section_key][IF p <= idx THEN p ELSE p + 1]

\* the step appends one artifact
AppendsOne(section_key) ==
  /\ Len(data'[section_key]) = Len(data[section_key]) + 1
  /\ \A p \in 1..Len(data[section_key]) : data'[section_key][p] = data[section_key][p]

\* the step replaces the artifact at the edit index, which is in range
ReplacesInRange(section_key) ==
  /\ section_key \in DOMAIN edit_index
  /\ edit_index[section_key] \in 0..(Len(data[section_key]) - 1)
  /\ Len(data'[section_key]) = Len(data[section_key])
  /\ \A p \in 1..Len(data[section_key]) :
       p # edit_index[section_key] + 1 => data'[section_key][p] = data[section_key][p]

BuiltByForm(section_key, artifact) ==
  /\ Len(artifact.checks) = Len(SECTION_CHECKS[section_key])
  /\ \A c \in 1..Len(artifact.checks) :
       /\ artifact.checks[c].name = SECTION_CHECKS[section_key][c]
       /\ artifact.checks[c].score \in 1..5

C21_ArtifactsChangeOnlyByExplicitOperations ==
  [][\A k \in SectionKeySet :
       /\ Len(data'[k]) > Len(data[k]) =>
            /\ AppendsOne(k)
            /\ k \notin DOMAIN edit_index
            /\ BuiltByForm(k, data'[k][Len(data'[k])])
       /\ Len(data'[k]) < Len(data[k]) => RemovesInRange(k)
       /\ (Len(data'[k]) = Len(data[k]) /\ data'[k] # data[k]) =>
            /\ ReplacesInRange(k)
            /\ k \notin DOMAIN edit_index'
            /\ BuiltByForm(k, data'[k][edit_index[k] + 1])
       /\ data'[k] # data[k] =>
            /\ \A j \in SectionKeySet \ {k} : data'[j] = data[j]
            /\ data'["metadata"] = data["metadata"]
            /\ data'["observations"] = data["observations"]
            /\ data'["recommendation"] = data["recommendation"]]_vars

\* artifacts were added to two sections and no edit is open
C21_Witness ==
  /\ edit_index = <<>>
  /\ Len(data["models"]) = 1
  /\ Len(data["source_code"]) = 1
  /\ AllChecksAt(data["models"][1], "models", 1)

(***************************************************************************)
(* C22: whenever an edit index is recorded for a section, it is a valid    *)
(* position of the section's current artifact list.  (That it designates   *)
(* the artifact on which Edit was clicked presupposes this.)               *)
(***************************************************************************)
C22_EditIndexIsValidPosition ==
  \A k \in DOMAIN edit_index : edit_index[k] \in 0..(Len(data[k]) - 1)

(***************************************************************************)
(* C23: the two section-scoring implementations agree: for every non-empty *)
(* section of a document, the Final Review page and the PDF report give    *)
(* the same total score, highest score, risk category and pass/fail.       *)
(***************************************************************************)
C23_ImplementationsAgree ==
  (summary.shown /\ report.generated) =>
    /\ summary.raised = "none"
    /\ \A k \in SectionKeySet :
         data[k] # <<>> =>
           /\ HasSummaryEntry(k)
           /\ SummaryScoring(SummaryEntry(k)) = ReportScoring(ReportEntry(k))

(***************************************************************************)
(* C25: a section's total score is bounded by the worst answer to each     *)
(* question, not by the size of the portfolio: it never exceeds 5 times    *)
(* the number of questions of the section, and an artifact whose scores    *)
(* are all less than or equal to another artifact's scores on the same     *)
(* questions adds nothing to it (the total with it equals the total        *)
(* without it).                                                            *)
(***************************************************************************)
\* every check of artifact a has a check of the same name in b, scored at
\* least as high
Dominated(a, b) ==
  \A c \in 1..Len(a.checks) :
    \E e \in 1..Len(b.checks) :
       /\ b.checks[e].name = a.checks[c].name
       /\ a.checks[c].score <= b.checks[e].score

C25_TotalBoundedByWorstAnswers ==
  \A k \in SectionKeySet :
    data[k] # <<>> =>
      /\ report.generated =>
           /\ ReportEntry(k).total <= 5 * Len(SECTION_CHECKS[k])
           /\ \A i, j \in 1..Len(data[k]) :
                (i # j /\ Dominated(data[k][i], data[k][j])) =>
                  calculate_section_total_score(Pop(data[k], i - 1))
                    = ReportEntry(k).total
      /\ summary.shown =>
           /\ summary.raised = "none"
           /\ SummaryEntry(k).total_score <= 5 * Len(SECTION_CHECKS[k])
           /\ \A i, j \in 1..Len(data[k]) :
                (i # j /\ Dominated(data[k][i], data[k][j])) =>
                  /\ calculate_section_risk(Pop(data[k], i - 1)).raised = "none"
                  /\ calculate_section_risk(Pop(data[k], i - 1)).total_score
                       = SummaryEntry(k).total_score

(***************************************************************************)
(* JSON records in the two representations of checks json_to_pdf.py        *)
(* reads: an ordered list of {name, score, notes}, and an object keyed by  *)
(* question name with {score, notes} entries.                              *)
(***************************************************************************)
\* the object-keyed representation of a list of checks with distinct names
ChecksAsObject(checks) ==
  [check_name \in {checks[c].name : c \in 1..Len(checks)} |->
     LET c == CHOOSE p \in 1..Len(checks) : checks[p].name = check_name
     IN [score |-> checks[c].score, notes |-> checks[c].notes]]

\* the list representation of object-keyed checks of a section, in the
\* order of the section's questions
ChecksAsList(section_key, checks) ==
  LET present == SelectSeq(SECTION_CHECKS[section_key],
                           LAMBDA q : q \in DOMAIN checks)
  IN [c \in 1..Len(present) |->
        [name |-> present[c], score |-> checks[present[c]].score,
         notes |-> checks[present[c]].notes]]

\* the artifact with its checks in the other representation
OtherRepresentation(section_key, item) ==
  [item EXCEPT !.checks = IF isinstance_dict(item.checks)
                          THEN ChecksAsList(section_key, item.checks)
                          ELSE ChecksAsObject(item.checks)]

\* the document with every artifact in the other representation
InOtherRepresentation(d) ==
  [key \in DOMAIN d |->
     IF key \in SectionKeySet
     THEN [a \in 1..Len(d[key]) |-> OtherRepresentation(key, d[key][a])]
     ELSE d[key]]

\* the artifact names of the records in the two representations
RepresentationNames == {"pkgA", "pkgB"}

\* the artifacts of each section of a record with checks as lists
ListArtifactsOf ==
  [k \in SectionKeySet |->
     FormArtifacts(k, RepresentationNames,
                   NamedScoreProfiles(Len(SECTION_CHECKS[k])), {FALSE})]

\* the artifacts of each section of a record with object-keyed checks
ObjectArtifactsOf ==
  [k \in SectionKeySet |->
     {[item EXCEPT !.checks = ChecksAsObject(item.checks)] :
        item \in ListArtifactsOf[k]}]

FormatsInit ==
  /\ \/ DocumentOver(ListArtifactsOf, SectionSizes(MaxArtifacts))
     \/ DocumentOver(ObjectArtifactsOf, SectionSizes(MaxArtifacts))
  /\ edit_index = [k \in {} |-> 0]
  /\ summary = NoSummary
  /\ report = NoReport
  /\ WorkspaceInit

SpecFormats == FormatsInit /\ [][SummaryNext]_vars

(***************************************************************************)
(* C24: the two representations of checks are scored identically by the    *)
(* PDF report: the Section Results (total, highest, category, pass/fail,   *)
(* contributing artifacts) and the cumulative result of a record are those *)
(* of the same record with every artifact's checks in the other            *)
(* representation.                                                         *)
(***************************************************************************)
C24_RepresentationsScoredIdentically ==
  report.generated =>
    /\ report.section_info = json_to_pdf(InOtherRepresentation(data)).section_info
    /\ report.cumulative = json_to_pdf(InOtherRepresentation(data)).cumulative

\* the report of a record with object-keyed checks in a section of two
\* artifacts that fails, one artifact contributing the highest score
C24_Witness ==
  /\ report.generated
  /\ Len(data["models"]) = 2
  /\ \A a \in 1..2 : isinstance_dict(data["models"][a].checks)
  /\ ReportEntry("models").pass_fail = "FAIL"
  /\ ReportEntry("models").highest = 5
  /\ Len(ReportEntry("models").artifacts) = 1

(***************************************************************************)
(* helper_functions.py: the files of the workspace.  A directory is the    *)
(* sequence of its files, the most recently written first (the order of    *)
(* get_draft_files, get_submission_files and get_checkpoints).             *)
(***************************************************************************)
\* the clock advances by one tick at every handler run that writes files;
\* the last clock value explored
MaxClock == 2

\* clock ticks in a day
TicksPerDay == 2

\* datetime.now().strftime("%Y%m%d_%H%M%S")
timestamp(t) == "t" \o ToString(t)

\* datetime.now().strftime("%d-%m-%Y")
date_str(t) == "d" \o ToString(t \div TicksPerDay)

\* datetime.now().strftime("%Y-%m-%d") of the date inputs
iso_date(t) == "D" \o ToString(t \div TicksPerDay)

\* str.startswith
startswith(text, prefix) ==
  Len(text) >= Len(prefix) /\ SubSeq(text, 1, Len(prefix)) = prefix

\* {k: v for k, v in data.items() if not k.startswith('_')}
WithoutInternal(d) ==
  [k \in {key \in DOMAIN d : ~startswith(key, "_")} |-> d[k]]

\* a directory after the file is written: a file of that name is replaced
WriteFile(files, file) ==
  <<file>> \o SelectSeq(files, LAMBDA f : f.name # file.name)

\* the name save_draft gives the draft file
draft_filename(project_id, t) ==
  IF project_id # ""
  THEN "draft_" \o project_id \o "_" \o timestamp(t) \o ".json"
  ELSE "draft_unnamed_" \o timestamp(t) \o ".json"

\* save_draft: drafts/ afterwards
save_draft(files, d, project_id, t) ==
  WriteFile(files, [name |-> draft_filename(project_id, t), content |-> d])

\* load_draft
load_draft(file) == file.content

\* delete_draft of the file at position p
delete_draft(files, p) ==
  [q \in 1..(Len(files) - 1) |-> IF q < p THEN files[q] ELSE files[q + 1]]

\* revision_count of an entry of get_submission_files
revision_count(folder) == Len(Get(folder.content, "_submission_history", <<>>))

\* load_submission
load_submission(folder) ==
  ("_original_submission_folder" :> folder.name) @@ folder.content

\* the folder save_final_submission writes to
submission_folder_name(project_id, original_folder_name, t) ==
  IF original_folder_name # None /\ original_folder_name # ""
  THEN original_folder_name
  ELSE "AIMCR-" \o project_id \o "-" \o date_str(t)

\* aimcr_data.json as save_final_submission writes it
submission_content(d, original_folder_name, t) ==
  LET submission_history ==
        Append(Get(d, "_submission_history", <<>>),
               [timestamp |-> t,
                action |-> IF original_folder_name # None /\ original_folder_name # ""
                           THEN "resubmission" ELSE "initial_submission"])
  IN ("_submission_history" :> submission_history) @@ WithoutInternal(d)

\* save_final_submission: submissions/ afterwards
save_final_submission(folders, d, project_id, original_folder_name, t) ==
  WriteFile(folders,
            [name |-> submission_folder_name(project_id, original_folder_name, t),
             content |-> submission_content(d, original_folder_name, t)])

\* path of a checkpoint file below checkpoints/
checkpoint_filename(project_id, checkpoint_type, t) ==
  project_id \o "/checkpoint_" \o checkpoint_type \o "_" \o timestamp(t) \o ".json"

\* archive_draft_as_checkpoint: checkpoints/ afterwards
archive_draft_as_checkpoint(files, d, project_id, checkpoint_type, t) ==
  WriteFile(files,
            [name |-> checkpoint_filename(project_id, checkpoint_type, t),
             content |->
               [checkpoint_metadata |->
                  [type |-> checkpoint_type, timestamp |-> t, project_id |-> project_id],
                form_data |-> WithoutInternal(d)]])

\* get_checkpoints: the files of checkpoints/<project_id>/
get_checkpoints(files, project_id) ==
  SelectSeq(files, LAMBDA f : f.content.checkpoint_metadata.project_id = project_id)

\* variant: the whole file is returned
load_checkpoint_whole_file(file) == file.content

\* load_checkpoint
load_checkpoint(file) == Get(file.content, "form_data", None)

(***************************************************************************)
(* streamlit_app.py: the sidebar and the Save and Export block of the      *)
(* Final Review page.                                                      *)
(***************************************************************************)
DRAFTS_PER_PAGE == 6

SUBMISSIONS_PER_PAGE == 6

\* (len(entries) + PER_PAGE - 1) // PER_PAGE
total_pages(count, per_page) == (count + per_page - 1) \div per_page

\* entries[start_idx:end_idx] holds the entry at position p (from 1)
OnPage(p, page, count, per_page) ==
  /\ p \in 1..count
  /\ page * per_page < p
  /\ p <= page * per_page + per_page

\* list[:n]
FirstN(list, n) == SubSeq(list, 1, IF Len(list) < n THEN Len(list) ELSE n)

\* the summary after st.rerun(): the Final Review page, when it is the
\* current section, is computed again from the document
Rerun(d) ==
  IF summary.shown THEN [shown |-> TRUE] @@ final_review(d) ELSE NoSummary

\* project ids typed on the Project Metadata page
ProjectIds == {"P1"}

\* texts typed in the Observations text area
ObservationTexts == {"revised"}

\* the Project Metadata page run with the project id typed: the text input
\* is written back and the two date inputs, empty, give today's date
MetadataPage(project_id) ==
  /\ data' = [data EXCEPT
                !["metadata"]["project_id"] = project_id,
                !["metadata"]["proposal_date"] =
                   IF @ # "" THEN @ ELSE iso_date(clock),
                !["metadata"]["aimcr_date"] =
                   IF @ # "" THEN @ ELSE iso_date(clock)]
  /\ summary' = NoSummary
  /\ report' = NoReport
  /\ written' = <<>>
  /\ UNCHANGED <<edit_index, editing_submission, original_submission_folder,
                 loaded_from, drafts, submissions, checkpoints, clock,
                 drafts_page, submissions_page>>

\* the Observations text area of the Final Review page
Observations(text) ==
  /\ SummaryShown
  /\ data' = [data EXCEPT !["observations"] = text]
  /\ summary' = Rerun(data')
  /\ report' = NoReport
  /\ written' = <<>>
  /\ UNCHANGED <<edit_index, editing_submission, original_submission_folder,
                 loaded_from, drafts, submissions, checkpoints, clock,
                 drafts_page, submissions_page>>

\* the Save Draft button of the sidebar
SidebarSaveDraft ==
  LET project_id == Get(data["metadata"], "project_id", "")
  IN /\ clock < MaxClock
     /\ clock' = clock + 1
     /\ drafts' = save_draft(drafts, data, project_id, clock)
     /\ written' = <<[kind |-> "draft", name |-> draft_filename(project_id, clock)]>>
     /\ UNCHANGED <<data, edit_index, summary, report, editing_submission,
                    original_submission_folder, loaded_from, submissions,
                    checkpoints, drafts_page, submissions_page>>

\* the Save Draft button of the Final Review page
FinalReviewSaveDraft ==
  LET project_id == data["metadata"]["project_id"]
  IN /\ SummaryShown
     /\ project_id # ""
     /\ clock < MaxClock
     /\ clock' = clock + 1
     /\ drafts' = save_draft(drafts, data, project_id, clock)
     /\ written' = <<[kind |-> "draft", name |-> draft_filename(project_id, clock)]>>
     /\ UNCHANGED <<data, edit_index, summary, report, editing_submission,
                    original_submission_folder, loaded_from, submissions,
                    checkpoints, drafts_page, submissions_page>>

\* the Load button of the draft at position p of the list
LoadDraft(p) ==
  /\ OnPage(p, drafts_page, Len(drafts), DRAFTS_PER_PAGE)
  /\ data' = load_draft(drafts[p])
  /\ loaded_from' = None
  /\ summary' = Rerun(data')
  /\ report' = NoReport
  /\ written' = <<>>
  /\ UNCHANGED <<edit_index, editing_submission, original_submission_folder,
                 drafts, submissions, checkpoints, clock, drafts_page,
                 submissions_page>>

\* the Delete button of the draft at position p of the list
DeleteDraft(p) ==
  /\ OnPage(p, drafts_page, Len(drafts), DRAFTS_PER_PAGE)
  /\ drafts' = delete_draft(drafts, p)
  /\ written' = <<>>
  /\ UNCHANGED <<data, edit_index, summary, report, editing_submission,
                 original_submission_folder, loaded_from, submissions,
                 checkpoints, clock, drafts_page, submissions_page>>

\* the Prev button below the drafts
DraftsPrev ==
  /\ total_pages(Len(drafts), DRAFTS_PER_PAGE) > 1
  /\ drafts_page # 0
  /\ drafts_page' = drafts_page - 1
  /\ written' = <<>>
  /\ UNCHANGED <<data, edit_index, summary, report, editing_submission,
                 original_submission_folder, loaded_from, drafts, submissions,
                 checkpoints, clock, submissions_page>>

\* the Next button below the drafts
DraftsNext ==
  /\ total_pages(Len(drafts), DRAFTS_PER_PAGE) > 1
  /\ ~(drafts_page >= total_pages(Len(drafts), DRAFTS_PER_PAGE) - 1)
  /\ drafts_page' = drafts_page + 1
  /\ written' = <<>>
  /\ UNCHANGED <<data, edit_index, summary, report, editing_submission,
                 original_submission_folder, loaded_from, drafts, submissions,
                 checkpoints, clock, submissions_page>>

\* the Edit Submission button of the folder at position p of the list
EditSubmission(p) ==
  /\ OnPage(p, submissions_page, Len(submissions), SUBMISSIONS_PER_PAGE)
  /\ LET loaded_data == load_submission(submissions[p])
     IN /\ original_submission_folder' =
             Get(loaded_data, "_original_submission_folder", None)
        /\ editing_submission' = TRUE
        /\ data' = WithoutInternal(loaded_data)
  /\ loaded_from' = submissions[p].name
  /\ summary' = Rerun(data')
  /\ report' = NoReport
  /\ written' = <<>>
  /\ UNCHANGED <<edit_index, drafts, submissions, checkpoints, clock,
                 drafts_page, submissions_page>>

\* the Prev button below the submissions
SubmissionsPrev ==
  /\ total_pages(Len(submissions), SUBMISSIONS_PER_PAGE) > 1
  /\ submissions_page # 0
  /\ submissions_page' = submissions_page - 1
  /\ written' = <<>>
  /\ UNCHANGED <<data, edit_index, summary, report, editing_submission,
                 original_submission_folder, loaded_from, drafts, submissions,
                 checkpoints, clock, drafts_page>>

\* the Next button below the submissions
SubmissionsNext ==
  /\ total_pages(Len(submissions), SUBMISSIONS_PER_PAGE) > 1
  /\ ~(submissions_page >= total_pages(Len(submissions), SUBMISSIONS_PER_PAGE) - 1)
  /\ submissions_page' = submissions_page + 1
  /\ written' = <<>>
  /\ UNCHANGED <<data, edit_index, summary, report, editing_submission,
                 original_submission_folder, loaded_from, drafts, submissions,
                 checkpoints, clock, drafts_page>>

\* the Start New Form button, shown while a submission is edited
StartNewForm ==
  /\ editing_submission
  /\ data' = EmptyDocument
  /\ editing_submission' = FALSE
  /\ original_submission_folder' = None
  /\ loaded_from' = None
  /\ summary' = Rerun(data')
  /\ report' = NoReport
  /\ written' = <<>>
  /\ UNCHANGED <<edit_index, drafts, submissions, checkpoints, clock,
                 drafts_page, submissions_page>>

\* drafts_dir.glob(f"draft_{project_id}_*.json")
draft_glob(name, project_id) ==
  /\ startswith(name, "draft_" \o project_id \o "_")
  /\ Len(name) >= Len("draft_" \o project_id \o "_") + Len(".json")
  /\ SubSeq(name, Len(name) - Len(".json") + 1, Len(name)) = ".json"

\* variant: the submission is saved before the checkpoint
SubmitWrites_submission_first(project_id, checkpoint_type, original_folder) ==
  <<[kind |-> "submission",
     name |-> submission_folder_name(project_id, original_folder, clock)],
    [kind |-> "checkpoint",
     name |-> checkpoint_filename(project_id, checkpoint_type, clock)]>>

\* the files the Submit handler writes, in the order of its calls
SubmitWrites(project_id, checkpoint_type, original_folder) ==
  <<[kind |-> "checkpoint",
     name |-> checkpoint_filename(project_id, checkpoint_type, clock)],
    [kind |-> "submission",
     name |-> submission_folder_name(project_id, original_folder, clock)]>>

\* the Submit Final / Resubmit button of the Final Review page with a
\* project id; push_ok is the outcome of push_to_github
Submit(push_ok) ==
  LET project_id == data["metadata"]["project_id"]
      checkpoint_type ==
        IF editing_submission THEN "pre_resubmission" ELSE "pre_submission"
      original_folder ==
        IF editing_submission THEN original_submission_folder ELSE None
  IN /\ SummaryShown
     /\ project_id # ""
     /\ clock < MaxClock
     /\ clock' = clock + 1
     /\ checkpoints' = archive_draft_as_checkpoint(checkpoints, data, project_id,
                                                   checkpoint_type, clock)
     /\ submissions' = save_final_submission(submissions, data, project_id,
                                             original_folder, clock)
     /\ written' = SubmitWrites(project_id, checkpoint_type, original_folder)
     /\ IF push_ok
        THEN /\ drafts' = SelectSeq(drafts, LAMBDA f : ~draft_glob(f.name, project_id))
             /\ editing_submission' = FALSE
             /\ original_submission_folder' = None
        ELSE UNCHANGED <<drafts, editing_submission, original_submission_folder>>
     /\ UNCHANGED <<data, edit_index, summary, report, loaded_from,
                    drafts_page, submissions_page>>

\* the Restore this checkpoint button of the p-th checkpoint shown; the
\* checkpoint restored counts as an earlier state of the document in the
\* form, loaded_from is kept
RestoreCheckpoint(p) ==
  LET project_id == data["metadata"]["project_id"]
      shown == FirstN(get_checkpoints(checkpoints, project_id), 5)
  IN /\ SummaryShown
     /\ project_id # ""
     /\ p \in 1..Len(shown)
     /\ data' = load_checkpoint(shown[p])
     /\ summary' = Rerun(data')
     /\ report' = NoReport
     /\ written' = <<>>
     /\ UNCHANGED <<edit_index, editing_submission, original_submission_folder,
                    loaded_from, drafts, submissions, checkpoints, clock,
                    drafts_page, submissions_page>>

\* a run of the Final Review page in the session
OpenFinalReview ==
  /\ summary' = [shown |-> TRUE] @@ final_review(data)
  /\ written' = <<>>
  /\ UNCHANGED <<data, edit_index, report, editing_submission,
                 original_submission_folder, loaded_from, drafts, submissions,
                 checkpoints, clock, drafts_page, submissions_page>>

\* the document of the files other sessions left in the repository the
\* workspace is cloned from
ClonedDocument ==
  [EmptyDocument EXCEPT !["metadata"]["project_id"] = "P2",
                        !["observations"] = "cloned"]

\* n drafts of the repository, saved at the clock values -1 .. -n
ClonedDrafts(n) ==
  [p \in 1..n |->
     [name |-> draft_filename("P2", 0 - p), content |-> ClonedDocument]]

\* n submissions of the repository, made on n earlier days
ClonedSubmissions(n) ==
  [p \in 1..n |->
     [name |-> submission_folder_name("P2", None, 0 - p * TicksPerDay),
      content |-> submission_content(ClonedDocument, None, 0 - p * TicksPerDay)]]

\* the session as first initialised, in a workspace cloned from a
\* repository without files or with one draft
SessionInit ==
  /\ data = EmptyDocument
  /\ edit_index = [k \in {} |-> 0]
  /\ summary = NoSummary
  /\ report = NoReport
  /\ editing_submission = FALSE
  /\ original_submission_folder = None
  /\ loaded_from = None
  /\ drafts \in {ClonedDrafts(0), ClonedDrafts(1)}
  /\ submissions = <<>>
  /\ checkpoints = <<>>
  /\ written = <<>>
  /\ clock = 0
  /\ drafts_page = 0
  /\ submissions_page = 0

SessionNext ==
  \/ \E project_id \in ProjectIds : MetadataPage(project_id)
  \/ OpenFinalReview
  \/ \E text \in ObservationTexts : Observations(text)
  \/ SidebarSaveDraft
  \/ FinalReviewSaveDraft
  \/ \E p \in 1..Len(drafts) : LoadDraft(p)
  \/ \E p \in 1..Len(drafts) : DeleteDraft(p)
  \/ \E p \in 1..Len(submissions) : EditSubmission(p)
  \/ StartNewForm
  \/ \E push_ok \in BOOLEAN : Submit(push_ok)
  \/ \E p \in 1..Len(checkpoints) : RestoreCheckpoint(p)

SpecSession == SessionInit /\ [][SessionNext]_vars

(***************************************************************************)
(* Vocabulary of the properties of the workspace.                          *)
(***************************************************************************)
\* the handler run of this step wrote a file of the kind and name
Wrote(kind, name) ==
  \E j \in 1..Len(written') : written'[j] = [kind |-> kind, name |-> name]

\* the handler run of this step wrote a file of the kind
WroteSome(kind) == \E j \in 1..Len(written') : written'[j].kind = kind

\* the file of the name in a directory
FileNamed(files, name) ==
  files[CHOOSE p \in 1..Len(files) : files[p].name = name]

HasFile(files, name) == \E p \in 1..Len(files) : files[p].name = name

\* the submission history stored in a folder
HistoryOf(folder) == Get(folder.content, "_submission_history", <<>>)

(***************************************************************************)
(* C26: a Submit Final or Resubmit with a project id writes a checkpoint   *)
(* of the document (type pre_submission, or pre_resubmission while a       *)
(* submission is edited) before it writes the submission record; no step   *)
(* writes a submission record without that checkpoint earlier in the same  *)
(* handler run; with an empty project id neither is written.               *)
(***************************************************************************)
C26_CheckpointBeforeSubmission ==
  [][LET project_id == data["metadata"]["project_id"]
         checkpoint_type ==
           IF editing_submission THEN "pre_resubmission" ELSE "pre_submission"
         name == checkpoint_filename(project_id, checkpoint_type, clock)
     IN /\ (submissions' # submissions) = WroteSome("submission")
        /\ (checkpoints' # checkpoints) = WroteSome("checkpoint")
        /\ WroteSome("submission") =>
             /\ project_id # ""
             /\ \E i, j \in 1..Len(written') :
                  /\ i < j
                  /\ written'[i] = [kind |-> "checkpoint", name |-> name]
                  /\ written'[j].kind = "submission"
             /\ HasFile(checkpoints', name)
             /\ FileNamed(checkpoints', name).content.checkpoint_metadata.type
                  = checkpoint_type
             /\ FileNamed(checkpoints', name).content.form_data = WithoutInternal(data)
        /\ WroteSome("checkpoint") => WroteSome("submission")
        /\ project_id = "" =>
             (checkpoints' = checkpoints /\ submissions' = submissions)]_vars

\* a resubmission has just been written after its checkpoint
C26_Witness ==
  /\ Len(written) = 2
  /\ written[1].kind = "checkpoint"
  /\ written[2].kind = "submission"
  /\ HasFile(checkpoints, written[1].name)
  /\ FileNamed(checkpoints, written[1].name).content.checkpoint_metadata.type
       = "pre_resubmission"
  /\ HasFile(submissions, written[2].name)

(***************************************************************************)
(* C27: a resubmission overwrites a submission folder only with the        *)
(* document loaded from that folder through Edit Submission: a submit made *)
(* while the editing flag is set writes to the folder the document in the  *)
(* form was loaded from, and any other submit writes to the folder         *)
(* AIMCR-<project_id>-<date>.                                              *)
(***************************************************************************)
C27_ResubmissionWritesToSourceFolder ==
  [][\A j \in 1..Len(written') :
       written'[j].kind = "submission" =>
         IF editing_submission
         THEN written'[j].name = loaded_from
         ELSE written'[j].name
                = "AIMCR-" \o data["metadata"]["project_id"] \o "-" \o date_str(clock)]_vars

(***************************************************************************)
(* C28: the submission history grows by one entry per submission: an       *)
(* initial submission stores the history <<initial_submission>>, and each  *)
(* resubmission through Edit Submission stores the history of the folder   *)
(* with one more entry, of action resubmission, so that after k            *)
(* resubmissions the history, and the revision count shown, is k + 1.      *)
(***************************************************************************)
C28_HistoryGrowsByOne ==
  [][\A p \in 1..Len(submissions') :
       Wrote("submission", submissions'[p].name) =>
         LET new == HistoryOf(submissions'[p])
         IN IF editing_submission /\ HasFile(submissions, submissions'[p].name)
            THEN LET old == HistoryOf(FileNamed(submissions, submissions'[p].name))
                 IN /\ Len(new) = Len(old) + 1
                    /\ SubSeq(new, 1, Len(old)) = old
                    /\ new[Len(new)].action = "resubmission"
                    /\ revision_count(submissions'[p])
                         = revision_count(FileNamed(submissions, submissions'[p].name)) + 1
            ELSE ~HasFile(submissions, submissions'[p].name) =>
                   /\ Len(new) = 1
                   /\ new[1].action = "initial_submission"]_vars

(***************************************************************************)
(* C29: persistence is lossless on a round trip: the draft, the checkpoint *)
(* and the submission record a handler writes each load back to a document *)
(* equal to the one saved, fields whose name starts with an underscore     *)
(* left aside; and a load puts in the form what the file holds.            *)
(***************************************************************************)
\* the step changes the document only in the fields typed on the Project
\* Metadata page and in the Observations text area
TypedEdit ==
  [data' EXCEPT !["metadata"] = data["metadata"],
                !["observations"] = data["observations"]] = data

RemoteDraft ==
  [name |-> draft_filename("P3", clock), content |-> ClonedDocument]

\* the Sync button: git pull brings what another session did to the
\* drafts, a draft saved or the draft at position p deleted
Sync(change, p) ==
  /\ \/ /\ change = "draft_saved"
        /\ drafts' = WriteFile(drafts, RemoteDraft)
        /\ drafts' # drafts
     \/ /\ change = "draft_deleted"
        /\ p \in 1..Len(drafts)
        /\ drafts' = delete_draft(drafts, p)
  /\ written' = <<>>
  /\ UNCHANGED <<data, edit_index, summary, report, editing_submission,
                 original_submission_folder, loaded_from, submissions,
                 checkpoints, clock, drafts_page, submissions_page>>

\* the workspace is cloned from a repository with one more draft and one
\* more submission than a page of the lists shows
PagesInit ==
  /\ data = EmptyDocument
  /\ edit_index = [k \in {} |-> 0]
  /\ summary = NoSummary
  /\ report = NoReport
  /\ editing_submission = FALSE
  /\ original_submission_folder = None
  /\ loaded_from = None
  /\ drafts = ClonedDrafts(DRAFTS_PER_PAGE + 1)
  /\ submissions = ClonedSubmissions(SUBMISSIONS_PER_PAGE + 1)
  /\ checkpoints = <<>>
  /\ written = <<>>
  /\ clock = 0
  /\ drafts_page = 0
  /\ submissions_page = 0

PagesNext ==
  \/ \E project_id \in ProjectIds : MetadataPage(project_id)
  \/ OpenFinalReview
  \/ SidebarSaveDraft
  \/ \E p \in 1..Len(drafts) : DeleteDraft(p)
  \/ DraftsPrev
  \/ DraftsNext
  \/ SubmissionsPrev
  \/ SubmissionsNext
  \/ \E push_ok \in BOOLEAN : Submit(push_ok)
  \/ \E change \in {"draft_saved", "draft_deleted"}, p \in 1..Len(drafts) + 1 :
       Sync(change, p)

SpecPages == PagesInit /\ [][PagesNext]_vars

(***************************************************************************)
(* C30: the page indices of the draft list and of the submission list stay *)
(* within the pages that exist: 0 <= p < max(1, number of pages).          *)
(***************************************************************************)
C30_PageIndexWithinPages ==
  /\ 0 <= drafts_page
  /\ drafts_page < Max2(1, total_pages(Len(drafts), DRAFTS_PER_PAGE))
  /\ 0 <= submissions_page
  /\ submissions_page < Max2(1, total_pages(Len(submissions), SUBMISSIONS_PER_PAGE))

====
